---- MODULE Spec2Model ----
(***************************************************************************)
(* Employee reminders (erpnext/hr/doctype/employee/employee_reminders.py). *)
(* The scheduled dispatchers for holiday, birthday, work anniversary and   *)
(* advance holiday reminders, over a small employee / holiday / settings   *)
(* store and an outgoing mail interface.                                   *)
(***************************************************************************)
EXTENDS Integers, Sequences, FiniteSets, TLC

VARIABLES
    employees,   \* tabEmployee: name (1..NumEmployees) -> Employee document
    settings,    \* the HR Settings single
    today,       \* getdate() / today(), <<year, month, day>>
    backend,     \* database dialect that frappe.db.multisql selects
    last         \* what the latest dispatcher invocation did

vars == <<employees, settings, today, backend, last>>

\* --------------------------------------------------------------------------
\* Bounds
\* --------------------------------------------------------------------------
NumEmployees == 2

EmployeeNames == 1..NumEmployees

\* index of the frappe.sendmail call that raises in one invocation; 0: none
FaultPoints == 0..(NumEmployees + 1)

\* --------------------------------------------------------------------------
\* Python values
\* --------------------------------------------------------------------------
\* None / empty string of an unset Data or Link field: both are falsy
NoValue == ""

\* Python `a or b` on strings and on integers
StrOr(a, b) == IF a # NoValue THEN a ELSE b

IntOr(a, b) == IF a # 0 THEN a ELSE b

\* --------------------------------------------------------------------------
\* Dates (frappe.utils getdate, add_days, add_months)
\* --------------------------------------------------------------------------
IsLeap(y) == (y % 4 = 0 /\ y % 100 # 0) \/ y % 400 = 0

DaysInMonth(y, m) ==
    IF m = 2 THEN (IF IsLeap(y) THEN 29 ELSE 28)
    ELSE IF m \in {4, 6, 9, 11} THEN 30 ELSE 31

NextDay(d) ==
    IF d[3] < DaysInMonth(d[1], d[2]) THEN <<d[1], d[2], d[3] + 1>>
    ELSE IF d[2] < 12 THEN <<d[1], d[2] + 1, 1>>
    ELSE <<d[1] + 1, 1, 1>>

RECURSIVE add_to_date(_, _)
add_to_date(date, days) ==
    IF days = 0 THEN date ELSE add_to_date(NextDay(date), days - 1)

\* def add_days(date, days): `args` are the positional arguments of a call;
\* a call that leaves `days` out raises TypeError before anything is computed
add_days(args) ==
    IF Len(args) = 2
    THEN [raised |-> FALSE, value |-> add_to_date(args[1], args[2])]
    ELSE [raised |-> TRUE, value |-> args[1]]

\* dateutil relativedelta(months=n): the day is clipped to the target month
add_months(date, months) ==
    LET total == (date[2] - 1) + months
        y == date[1] + (total \div 12)
        m == (total % 12) + 1
        dim == DaysInMonth(y, m)
    IN <<y, m, IF date[3] > dim THEN dim ELSE date[3]>>

DateLE(a, b) ==
    \/ a[1] < b[1]
    \/ a[1] = b[1] /\ a[2] < b[2]
    \/ a[1] = b[1] /\ a[2] = b[2] /\ a[3] <= b[3]

\* --------------------------------------------------------------------------
\* frappe.utils comma_sep / comma_and (add_quotes = False)
\* --------------------------------------------------------------------------
RECURSIVE JoinComma(_)
JoinComma(items) ==
    IF Len(items) = 0 THEN ""
    ELSE IF Len(items) = 1 THEN items[1]
    ELSE items[1] \o ", " \o JoinComma(Tail(items))

comma_sep(some_list, conj) ==
    IF Len(some_list) = 0 THEN ""
    ELSE IF Len(some_list) = 1 THEN some_list[1]
    ELSE JoinComma(SubSeq(some_list, 1, Len(some_list) - 1))
             \o conj \o some_list[Len(some_list)]

comma_and(some_list) == comma_sep(some_list, " and ")


\* --------------------------------------------------------------------------
\* The stores (Employee, Holiday, HR Settings)
\* --------------------------------------------------------------------------
Holiday(date, description, weekly_off) ==
    [holiday_date |-> date, description |-> description, weekly_off |-> weekly_off]

\* Employee documents the store may hold.  `holidays` are the rows of the
\* employee's holiday list.
EmployeeDocs ==
    { [employee_name |-> "Jim", status |-> "Active", company |-> "Acme",
       user_id |-> "jim@user", personal_email |-> NoValue, company_email |-> "jim@acme",
       image |-> NoValue,
       date_of_birth |-> <<1990, 1, 15>>, date_of_joining |-> <<2019, 1, 15>>,
       holidays |-> << Holiday(<<2024, 1, 15>>, "Pongal", FALSE),
                       Holiday(<<2024, 1, 21>>, "Sunday", TRUE) >>],
      [employee_name |-> "Rim", status |-> "Active", company |-> "Acme",
       user_id |-> NoValue, personal_email |-> "rim@home", company_email |-> "rim@acme",
       image |-> NoValue,
       date_of_birth |-> <<1985, 1, 15>>, date_of_joining |-> <<2020, 1, 15>>,
       holidays |-> << Holiday(<<2024, 1, 15>>, "Pongal", FALSE),
                       Holiday(<<2024, 1, 15>>, "Founders Day", FALSE),
                       Holiday(<<2024, 1, 15>>, "Monday", TRUE) >>],
      [employee_name |-> "Kim", status |-> "Left", company |-> "Zeta",
       user_id |-> "kim@user", personal_email |-> NoValue, company_email |-> NoValue,
       image |-> NoValue,
       date_of_birth |-> <<1988, 1, 15>>, date_of_joining |-> <<2018, 1, 15>>,
       holidays |-> << Holiday(<<2024, 1, 15>>, "Pongal", FALSE),
                       Holiday(<<2024, 1, 15>>, "Founders Day", FALSE),
                       Holiday(<<2024, 1, 15>>, "Harvest", FALSE) >>],
      [employee_name |-> "Tim", status |-> "Active", company |-> "Zeta",
       user_id |-> NoValue, personal_email |-> NoValue, company_email |-> NoValue,
       image |-> NoValue,
       date_of_birth |-> <<1991, 1, 15>>, date_of_joining |-> <<2021, 1, 15>>,
       holidays |-> << Holiday(<<2024, 1, 15>>, "Pongal", FALSE) >>] }

ReferenceDates == { <<2024, 1, 15>>, <<2023, 12, 28>> }

Backends == {"mariadb", "postgres"}

Frequencies == {"Weekly", "Monthly"}

SettingsValues ==
    [send_holiday_reminders : {0, 1},
     stop_birthday_reminders : {0, 1},
     send_work_anniversary_reminders : {0, 1},
     send_holiday_reminders_in_advance : {0, 1},
     frequency : Frequencies]

\* frappe.db.get_single_value("HR Settings", fieldname)
get_single_value(fieldname) == settings[fieldname]

\* a variant that leaves out the employees the invocation before already mailed
get_all_employee_names_not_yet_mailed ==
    SelectSeq([i \in 1..NumEmployees |-> i],
        LAMBDA i : \A k \in 1..Len(last.sent) :
            StrOr(employees[i].user_id,
                  StrOr(employees[i].personal_email, employees[i].company_email))
                \notin last.sent[k].recipients)

\* frappe.db.get_all('Employee', pluck='name'): no filters, every employee
get_all_employee_names == [i \in 1..NumEmployees |-> i]

\* --------------------------------------------------------------------------
\* Functions imported from erpnext.hr.doctype.employee.employee and
\* erpnext.hr.utils
\* --------------------------------------------------------------------------
\* resolved address: user email, else personal email, else company email
get_employee_email(doc) ==
    StrOr(doc.user_id, StrOr(doc.personal_email, doc.company_email))

\* addresses of the employees of a company
get_all_employee_emails(company) ==
    LET addr(i) == get_employee_email(employees[i])
    IN { addr(i) : i \in { j \in EmployeeNames :
                             /\ employees[j].company = company
                             /\ addr(j) # NoValue } }

\* (has_holiday, descriptions) of the employee for today
is_holiday(employee, only_non_weekly) ==
    LET rows == SelectSeq(employees[employee].holidays,
                          LAMBDA h : /\ h.holiday_date = today
                                     /\ (only_non_weekly => ~h.weekly_off))
        descriptions == [k \in 1..Len(rows) |-> rows[k].description]
    IN <<Len(rows) > 0, descriptions>>

\* get_holidays_for_employee(employee, start_date, end_date, only_non_weekly):
\* `args` are the positional arguments of a call.  The holidays of the
\* employee within [start_date, end_date], or null when the employee has no
\* holiday list; a call that leaves a parameter unbound raises TypeError.
get_holidays_for_employee(args, only_non_weekly) ==
    IF Len(args) # 3 THEN [status |-> "TypeError", holidays |-> <<>>]
    ELSE IF args[1] \notin EmployeeNames THEN [status |-> "null", holidays |-> <<>>]
    ELSE [status |-> "list",
          holidays |-> SelectSeq(employees[args[1]].holidays,
                           LAMBDA h : /\ DateLE(args[2], h.holiday_date)
                                      /\ DateLE(h.holiday_date, args[3])
                                      /\ (only_non_weekly => ~h.weekly_off))]

\* --------------------------------------------------------------------------
\* One invocation of a dispatcher
\* --------------------------------------------------------------------------
\* outcome: "returned" or "raised"; failed: index of the sendmail call that
\* raised (0: none); queried: the employee table was read; sent: the mails
\* handed to frappe.sendmail, in order; lookups: the holiday range lookups
\* issued; advanced: the employees passed to send_holidays_reminder_in_advance
\* window: the <<start_date, end_date>> an advance run computed, else <<>>
Returned(queried, sent, lookups, advanced) ==
    [outcome |-> "returned", error |-> "", failed |-> 0, queried |-> queried,
     sent |-> sent, lookups |-> lookups, advanced |-> advanced, window |-> <<>>]

Raised(error, failed, queried, sent, lookups, advanced) ==
    [outcome |-> "raised", error |-> error, failed |-> failed, queried |-> queried,
     sent |-> sent, lookups |-> lookups, advanced |-> advanced, window |-> <<>>]

\* recipients: the addresses, as a set; persons: the rows passed as template
\* argument; named: the per-person texts that the reminder text joins
Mail(template, recipients, reminder_text, persons, named, message) ==
    [template |-> template, recipients |-> recipients,
     reminder_text |-> reminder_text, persons |-> persons, named |-> named,
     message |-> message]

\* --------------------------------------------------------------------------
\* Holiday reminders
\* --------------------------------------------------------------------------
get_holiday_reminder_text_and_message(descriptions) ==
    LET description == IF Len(descriptions) = 1 THEN descriptions[1]
                       ELSE comma_and(descriptions)
    IN << "This email is to remind you about today's holiday.",
          "Holiday is on the occassion of " \o description \o "." >>

\* the mail send_holiday_reminder_to_employee hands to frappe.sendmail
send_holiday_reminder_to_employee(employee, descriptions) ==
    LET tm == get_holiday_reminder_text_and_message(descriptions)
        employee_doc == employees[employee]
        employee_email == get_employee_email(employee_doc)
    IN Mail("holiday_reminder", {employee_email}, tm[1], <<>>, descriptions, tm[2])

\* the loop of send_holiday_reminders from position i on; an exception of
\* frappe.sendmail is not caught and ends the invocation
RECURSIVE HolidayLoop(_, _, _, _)
HolidayLoop(names, i, sent, fault) ==
    IF i > Len(names) THEN Returned(TRUE, sent, <<>>, <<>>)
    ELSE LET employee == names[i]
             h == is_holiday(employee, TRUE)
         IN IF h[1]
            THEN IF Len(sent) + 1 = fault
                 THEN Raised("MailSendError", fault, TRUE, sent, <<>>, <<>>)
                 ELSE HolidayLoop(names, i + 1,
                          Append(sent, send_holiday_reminder_to_employee(employee, h[2])),
                          fault)
            ELSE HolidayLoop(names, i + 1, sent, fault)

HolidayRun(fault) ==
    LET to_send == IntOr(get_single_value("send_holiday_reminders"), 1)
    IN IF to_send = 0 THEN Returned(FALSE, <<>>, <<>>, <<>>)
       ELSE HolidayLoop(get_all_employee_names, 1, <<>>, fault)

\* --------------------------------------------------------------------------
\* Birthday and work anniversary reminders
\* --------------------------------------------------------------------------
\* the row the SELECT of the dialect returns for an employee: only the
\* mariadb statement selects date_of_joining
EventRow(doc) ==
    IF backend = "mariadb"
    THEN [personal_email |-> doc.personal_email, company |-> doc.company,
          company_email |-> doc.company_email, user_id |-> doc.user_id,
          name |-> doc.employee_name, image |-> doc.image,
          date_of_joining |-> doc.date_of_joining]
    ELSE [personal_email |-> doc.personal_email, company |-> doc.company,
          company_email |-> doc.company_email, user_id |-> doc.user_id,
          name |-> doc.employee_name, image |-> doc.image]

condition_column(event_type) ==
    IF event_type = "birthday" THEN "date_of_birth" ELSE "date_of_joining"

\* WHERE DAY(col) = DAY(today) AND MONTH(col) = MONTH(today) AND status = 'Active'
EventToday(doc, event_type) ==
    /\ doc[condition_column(event_type)][3] = today[3]
    /\ doc[condition_column(event_type)][2] = today[2]
    /\ doc.status = "Active"

\* grouped_employees[company].append(row), companies in order of first row
RECURSIVE GroupByCompany(_, _)
GroupByCompany(rows, groups) ==
    IF rows = <<>> THEN groups
    ELSE LET row == Head(rows)
             at == { k \in 1..Len(groups) : groups[k].company = row.company }
         IN IF at = {}
            THEN GroupByCompany(Tail(rows),
                     Append(groups, [company |-> row.company, persons |-> <<row>>]))
            ELSE LET k == CHOOSE x \in at : TRUE
                 IN GroupByCompany(Tail(rows),
                        [groups EXCEPT ![k].persons = Append(@, row)])

get_employees_having_an_event_today(event_type) ==
    LET matching == SelectSeq(get_all_employee_names,
                              LAMBDA i : EventToday(employees[i], event_type))
        rows == [k \in 1..Len(matching) |-> EventRow(employees[matching[k]])]
    IN GroupByCompany(rows, <<>>)

\* a text computation: raised (KeyError) or the texts
Texts(named, reminder_text, message) ==
    [raised |-> FALSE, named |-> named, reminder_text |-> reminder_text,
     message |-> message]

TextKeyError == [raised |-> TRUE, named |-> <<>>, reminder_text |-> "", message |-> ""]

get_birthday_reminder_text_and_message(birthday_persons) ==
    LET person_names == [k \in 1..Len(birthday_persons) |-> birthday_persons[k].name]
        birthday_person_text ==
            IF Len(birthday_persons) = 1 THEN birthday_persons[1].name
            ELSE comma_sep(person_names, " & ")
    IN Texts(person_names,
             "Today is " \o birthday_person_text \o "'s birthday",
             "A friendly reminder of an important date for our team.<br>"
                 \o "Everyone, let's congratulate " \o birthday_person_text
                 \o " on their birthday.")

\* getdate().year - person['date_of_joining'].year
completed_years(person) == today[1] - person.date_of_joining[1]

person_text_with_years(person) ==
    person.name \o " completed " \o ToString(completed_years(person)) \o " years"

get_work_anniversary_reminder_text_and_message(anniversary_persons) ==
    IF \E k \in 1..Len(anniversary_persons) :
           "date_of_joining" \notin DOMAIN anniversary_persons[k]
    THEN TextKeyError
    ELSE LET person_names_with_years ==
                 [k \in 1..Len(anniversary_persons) |->
                      person_text_with_years(anniversary_persons[k])]
             anniversary_person ==
                 IF Len(anniversary_persons) = 1 THEN person_names_with_years[1]
                 ELSE comma_sep(person_names_with_years, " & ")
         IN Texts(person_names_with_years,
                  "Today " \o anniversary_person \o " at our Company!",
                  "A friendly reminder of an important date for our team.<br>"
                      \o "Everyone, let's congratulate " \o anniversary_person
                      \o " on their work anniversary!")

text_and_message(event_type, persons) ==
    IF event_type = "birthday" THEN get_birthday_reminder_text_and_message(persons)
    ELSE get_work_anniversary_reminder_text_and_message(persons)

template_of(event_type) ==
    IF event_type = "birthday" THEN "birthday_reminder" ELSE "anniversary_reminder"

\* a step of the loop body that ends in frappe.sendmail: the text computation
\* raised, or the mail to send
SendStep(event_type, recipients, persons) ==
    LET tm == text_and_message(event_type, persons)
    IN [raised |-> tm.raised,
        mail |-> Mail(template_of(event_type), recipients, tm.reminder_text,
                      persons, tm.named, tm.message)]

\* [d for d in persons if d != person]: rows are compared by value
others_of(persons, person) == SelectSeq(persons, LAMBDA d : d # person)

\* the sends of one company, in order: the group mail, then, when several
\* persons share the day, one mail per person about the others
CompanySteps(event_type, group) ==
    LET persons == group.persons
        employee_emails == get_all_employee_emails(group.company)
        person_emails == { get_employee_email(persons[k]) : k \in 1..Len(persons) }
        recipients == employee_emails \ person_emails
        shared == [k \in 1..Len(persons) |->
                      LET person == persons[k]
                          person_email == StrOr(person.user_id,
                                              StrOr(person.personal_email,
                                                    person.company_email))
                      IN SendStep(event_type, {person_email}, others_of(persons, person))]
    IN <<SendStep(event_type, recipients, persons)>>
           \o (IF Len(persons) > 1 THEN shared ELSE <<>>)

RECURSIVE AllSteps(_, _)
AllSteps(event_type, groups) ==
    IF groups = <<>> THEN <<>>
    ELSE CompanySteps(event_type, Head(groups)) \o AllSteps(event_type, Tail(groups))

\* the steps in order; no exception is caught, the first one ends the invocation
RECURSIVE Deliver(_, _, _)
Deliver(steps, sent, fault) ==
    IF steps = <<>> THEN Returned(TRUE, sent, <<>>, <<>>)
    ELSE IF Head(steps).raised
         THEN Raised("KeyError", 0, TRUE, sent, <<>>, <<>>)
    ELSE IF Len(sent) + 1 = fault
         THEN Raised("MailSendError", fault, TRUE, sent, <<>>, <<>>)
    ELSE Deliver(Tail(steps), Append(sent, Head(steps).mail), fault)

EventRun(event_type, fault) ==
    Deliver(AllSteps(event_type, get_employees_having_an_event_today(event_type)),
            <<>>, fault)

BirthdayRun(fault) ==
    IF IntOr(get_single_value("stop_birthday_reminders"), 0) # 0
    THEN Returned(FALSE, <<>>, <<>>, <<>>)
    ELSE EventRun("birthday", fault)

WorkAnniversaryRun(fault) ==
    LET to_send == IntOr(get_single_value("send_work_anniversary_reminders"), 1)
    IN IF to_send = 0 THEN Returned(FALSE, <<>>, <<>>, <<>>)
       ELSE EventRun("work_anniversary", fault)

\* --------------------------------------------------------------------------
\* Advance holiday reminders
\* --------------------------------------------------------------------------
\* the call in the loop: get_holidays_for_employee(start_date, end_date,
\* only_non_weekly=True, raise_exception=False)
Lookup(employee, start_date, end_date) ==
    [args |-> <<start_date, end_date>>, only_non_weekly |-> TRUE,
     raise_exception |-> FALSE]

\* the loop of send_advance_holiday_reminders from position i on;
\* send_holidays_reminder_in_advance is `pass`
RECURSIVE AdvanceLoop(_, _, _, _, _, _)
AdvanceLoop(names, i, start_date, end_date, lookups, advanced) ==
    IF i > Len(names) THEN Returned(TRUE, <<>>, lookups, advanced)
    ELSE LET employee == names[i]
             call == Lookup(employee, start_date, end_date)
             holidays == get_holidays_for_employee(call.args, call.only_non_weekly)
         IN IF holidays.status = "TypeError"
            THEN Raised("TypeError", 0, TRUE, <<>>, Append(lookups, call), advanced)
            ELSE AdvanceLoop(names, i + 1, start_date, end_date,
                     Append(lookups, call),
                     IF holidays.status # "null" THEN Append(advanced, employee)
                     ELSE advanced)

AdvanceRun(frequency) ==
    IF frequency = "Weekly"
    THEN LET start_date == add_days(<<today, 1>>).value
             end_date == add_days(<<today, 7>>).value
         IN [AdvanceLoop(get_all_employee_names, 1, start_date, end_date, <<>>, <<>>)
                EXCEPT !.window = <<start_date, end_date>>]
    ELSE IF frequency = "Monthly"
    THEN LET start == add_days(<<today>>)
             end_date == add_months(today, 1)
         IN IF start.raised
            THEN Raised("TypeError", 0, FALSE, <<>>, <<>>, <<>>)
            ELSE [AdvanceLoop(get_all_employee_names, 1, start.value, end_date,
                              <<>>, <<>>)
                     EXCEPT !.window = <<start.value, end_date>>]
    ELSE Returned(FALSE, <<>>, <<>>, <<>>)

AdvanceFrequencies == Frequencies \cup {"Daily"}

InAdvanceRun(frequency) ==
    LET to_send_in_advance ==
            IntOr(get_single_value("send_holiday_reminders_in_advance"), 1)
    IN IF ~(to_send_in_advance # 0 /\ get_single_value("frequency") = frequency)
       THEN Returned(FALSE, <<>>, <<>>, <<>>)
       ELSE AdvanceRun(frequency)

\* --------------------------------------------------------------------------
\* The scheduler
\* --------------------------------------------------------------------------
NoRun ==
    [op |-> "none", rerun |-> FALSE, outcome |-> "none", error |-> "", failed |-> 0,
     queried |-> FALSE, sent |-> <<>>, lookups |-> <<>>, advanced |-> <<>>,
     window |-> <<>>]

\* the record of an invocation; rerun: the invocation before it was the same
\* dispatcher, with the same mail call (or none) failing
Invocation(op, r) ==
    [op |-> op, rerun |-> (last.op = op /\ last.failed = r.failed),
     outcome |-> r.outcome, error |-> r.error, failed |-> r.failed,
     queried |-> r.queried, sent |-> r.sent, lookups |-> r.lookups,
     advanced |-> r.advanced, window |-> r.window]

\* Employee.validate rejects a user_id that another employee already has
UniqueUserIds(table) ==
    \A i, j \in EmployeeNames :
        (i # j /\ table[i].user_id # NoValue) => table[i].user_id # table[j].user_id

Init ==
    /\ employees \in { table \in [EmployeeNames -> EmployeeDocs] : UniqueUserIds(table) }
    /\ settings \in SettingsValues
    /\ today \in ReferenceDates
    /\ backend \in Backends
    /\ last = NoRun

send_holiday_reminders ==
    /\ \E fault \in FaultPoints :
           last' = Invocation("send_holiday_reminders", HolidayRun(fault))
    /\ UNCHANGED <<employees, settings, today, backend>>

send_birthday_reminders ==
    /\ \E fault \in FaultPoints :
           last' = Invocation("send_birthday_reminders", BirthdayRun(fault))
    /\ UNCHANGED <<employees, settings, today, backend>>

send_work_anniversary_reminders ==
    /\ \E fault \in FaultPoints :
           last' = Invocation("send_work_anniversary_reminders", WorkAnniversaryRun(fault))
    /\ UNCHANGED <<employees, settings, today, backend>>

send_reminders_in_advance_weekly ==
    /\ last' = Invocation("send_reminders_in_advance_weekly", InAdvanceRun("Weekly"))
    /\ UNCHANGED <<employees, settings, today, backend>>

send_reminders_in_advance_monthly ==
    /\ last' = Invocation("send_reminders_in_advance_monthly", InAdvanceRun("Monthly"))
    /\ UNCHANGED <<employees, settings, today, backend>>

\* a direct call send_advance_holiday_reminders(frequency)
send_advance_holiday_reminders ==
    /\ \E frequency \in AdvanceFrequencies :
           last' = Invocation("send_advance_holiday_reminders:" \o frequency,
                              AdvanceRun(frequency))
    /\ UNCHANGED <<employees, settings, today, backend>>

Next ==
    \/ send_holiday_reminders
    \/ send_birthday_reminders
    \/ send_work_anniversary_reminders
    \/ send_reminders_in_advance_weekly
    \/ send_reminders_in_advance_monthly
    \/ send_advance_holiday_reminders

Spec == Init /\ [][Next]_vars

\* --------------------------------------------------------------------------
\* Vocabulary of the properties
\* --------------------------------------------------------------------------
MailingOps ==
    {"send_holiday_reminders", "send_birthday_reminders",
     "send_work_anniversary_reminders"}

\* employees for whom today is a non-weekly holiday, in the order of the table
HolidayEmployees ==
    SelectSeq([i \in 1..NumEmployees |-> i],
              LAMBDA i : \E k \in 1..Len(employees[i].holidays) :
                             /\ employees[i].holidays[k].holiday_date = today
                             /\ ~employees[i].holidays[k].weekly_off)

NonWeeklyToday(i) ==
    LET rows == SelectSeq(employees[i].holidays,
                          LAMBDA h : h.holiday_date = today /\ ~h.weekly_off)
    IN [k \in 1..Len(rows) |-> rows[k].description]

\* the holiday text expected for one, two or three descriptions
ExpectedHolidayMessage(d) ==
    "Holiday is on the occassion of "
        \o (IF Len(d) = 1 THEN d[1]
            ELSE IF Len(d) = 2 THEN d[1] \o " and " \o d[2]
            ELSE d[1] \o ", " \o d[2] \o " and " \o d[3])
        \o "."

ResolvedAddress(i) ==
    IF employees[i].user_id # NoValue THEN employees[i].user_id
    ELSE IF employees[i].personal_email # NoValue THEN employees[i].personal_email
    ELSE employees[i].company_email

EventColumn(op) ==
    IF op = "send_birthday_reminders" THEN "date_of_birth" ELSE "date_of_joining"

\* active employees of the company whose birth (joining) day and month is today
Honorees(op, company) ==
    { i \in EmployeeNames :
        /\ employees[i].status = "Active"
        /\ employees[i].company = company
        /\ employees[i][EventColumn(op)][2] = today[2]
        /\ employees[i][EventColumn(op)][3] = today[3] }

Companies == { employees[i].company : i \in EmployeeNames }

EventEnabled(op) ==
    IF op = "send_birthday_reminders" THEN settings.stop_birthday_reminders = 0
    ELSE settings.send_work_anniversary_reminders = 1

\* the positions in last.sent of the mails about exactly the persons `who`
\* (employee names) of the company
MailsAbout(company, who) ==
    { k \in 1..Len(last.sent) :
        LET persons == last.sent[k].persons
        IN /\ Len(persons) = Cardinality(who)
           /\ \A j \in 1..Len(persons) : persons[j].company = company
           /\ \A i \in who : \E j \in 1..Len(persons) :
                  persons[j].name = employees[i].employee_name }

\* the advance windows of the reference dates
ExpectedWindow(frequency) ==
    IF frequency = "Weekly"
    THEN (IF today = <<2024, 1, 15>> THEN << <<2024, 1, 16>>, <<2024, 1, 22>> >>
          ELSE << <<2023, 12, 29>>, <<2024, 1, 4>> >>)
    ELSE (IF today = <<2024, 1, 15>> THEN << <<2024, 1, 15>>, <<2024, 2, 15>> >>
          ELSE << <<2023, 12, 28>>, <<2024, 1, 28>> >>)

\* --------------------------------------------------------------------------
\* Properties
\* --------------------------------------------------------------------------

\* C1: a dispatcher whose enabling flag is stored as 0 returns without reading
\* the employee table and sends no mail.
C1_DisabledFlagSendsNothing ==
    LET quiet == last.outcome = "returned" /\ ~last.queried /\ last.sent = <<>>
    IN /\ (last.op = "send_holiday_reminders"
              /\ settings.send_holiday_reminders = 0) => quiet
       /\ (last.op = "send_work_anniversary_reminders"
              /\ settings.send_work_anniversary_reminders = 0) => quiet
       /\ (last.op \in {"send_reminders_in_advance_weekly",
                        "send_reminders_in_advance_monthly"}
              /\ settings.send_holiday_reminders_in_advance = 0) => quiet

\* C2: a failure while handling one employee or company costs only that send:
\* the invocation does not raise and every other mail of the run is sent.
C2_FailureIsLocal ==
    last.op \in MailingOps =>
        /\ last.outcome = "returned"
        /\ last.failed # 0 =>
             Len(last.sent) + 1 >=
                 Len((CASE last.op = "send_holiday_reminders" -> HolidayRun(0)
                        [] last.op = "send_birthday_reminders" -> BirthdayRun(0)
                        [] OTHER -> WorkAnniversaryRun(0)).sent)

\* C3: with holiday reminders enabled, a run sends one holiday mail per
\* employee for whom today is a non-weekly holiday, to that employee, with all
\* the matching descriptions (one verbatim, several joined with "and"), and no
\* holiday mail for anyone else.
C3_OneHolidayMailPerHolidayEmployee ==
    (last.op = "send_holiday_reminders" /\ settings.send_holiday_reminders = 1) =>
        /\ Len(last.sent) = Len(HolidayEmployees)
        /\ \A k \in 1..Len(last.sent) :
               LET i == HolidayEmployees[k]
               IN /\ last.sent[k].template = "holiday_reminder"
                  /\ last.sent[k].recipients = {ResolvedAddress(i)}
                  /\ last.sent[k].named = NonWeeklyToday(i)
                  /\ last.sent[k].message = ExpectedHolidayMessage(NonWeeklyToday(i))

\* C4: an employee who is not Active never gets a holiday mail.
C4_OnlyActiveEmployeesGetHolidayMail ==
    last.op = "send_holiday_reminders" =>
        \A i \in EmployeeNames :
            employees[i].status # "Active" =>
                \A k \in 1..Len(last.sent) :
                    ResolvedAddress(i) \notin last.sent[k].recipients

\* C5: for every company with at least one honoree today, exactly one group
\* mail is sent, to the company's addresses minus the honorees' resolved
\* addresses.
C5_OneGroupMailWithoutHonorees ==
    (last.op \in {"send_birthday_reminders", "send_work_anniversary_reminders"}
        /\ EventEnabled(last.op)) =>
        \A c \in Companies :
            LET H == Honorees(last.op, c)
                group == MailsAbout(c, H)
            IN H # {} =>
                 /\ Cardinality(group) = 1
                 /\ \A k \in group :
                        /\ last.sent[k].recipients =
                               get_all_employee_emails(c)
                                   \ { ResolvedAddress(i) : i \in H }
                        /\ \A i \in H :
                               ResolvedAddress(i) \notin last.sent[k].recipients

\* C6: in a company with k >= 2 honorees each honoree gets one more mail, to
\* the honoree's resolved address, about exactly the other k-1 honorees; a
\* company with one honoree gets the group mail only.
C6_CoHonoreesGetMailAboutTheOthers ==
    (last.op \in {"send_birthday_reminders", "send_work_anniversary_reminders"}
        /\ EventEnabled(last.op)) =>
        /\ \A c \in Companies :
               LET H == Honorees(last.op, c)
               IN Cardinality(H) >= 2 =>
                    \A i \in H :
                        LET mine == { k \in MailsAbout(c, H \ {i}) :
                                        last.sent[k].recipients = {ResolvedAddress(i)} }
                            sameAddress == { j \in H :
                                               /\ ResolvedAddress(j) = ResolvedAddress(i)
                                               /\ employees[j].employee_name
                                                      = employees[i].employee_name }
                        IN Cardinality(mine) = Cardinality(sameAddress)
        /\ (\A c \in Companies : Cardinality(Honorees(last.op, c)) <= 1) =>
               Len(last.sent)
                   = Cardinality({ c \in Companies : Honorees(last.op, c) # {} })

\* C7: the advance window is [today+1, today+7] for Weekly and
\* [today, today+1 month] for Monthly, both go on to the per-employee lookups
\* with that window, and any other frequency looks nothing up.
C7_AdvanceWindow ==
    /\ \A frequency \in Frequencies :
           last.op = "send_advance_holiday_reminders:" \o frequency =>
               /\ last.window = ExpectedWindow(frequency)
               /\ last.queried
               /\ last.lookups # <<>>
               /\ \A k \in 1..Len(last.lookups) :
                      LET args == last.lookups[k].args
                      IN SubSeq(args, Len(args) - 1, Len(args))
                             = ExpectedWindow(frequency)
    /\ last.op = "send_advance_holiday_reminders:Daily" =>
           last.lookups = <<>> /\ last.outcome = "returned"

\* C8: every honoree record the employee query returns for a work anniversary
\* is named in the run's mails with "completed <current year - joining year>
\* years" (no mail call failing).
C8_YearsCompleted ==
    (last.op = "send_work_anniversary_reminders" /\ last.queried /\ last.failed = 0) =>
        \A i \in UNION { Honorees(last.op, c) : c \in Companies } :
            \E k \in 1..Len(last.sent) : \E j \in 1..Len(last.sent[k].named) :
                last.sent[k].named[j] =
                    employees[i].employee_name \o " completed "
                        \o ToString(today[1] - employees[i].date_of_joining[1])
                        \o " years"

\* C9: no dispatcher changes the employee, holiday or settings records, and an
\* invocation that repeats the one before it sends the same mails again.
C9_NoStateKeptResendsDuplicates ==
    [][ /\ employees' = employees
        /\ settings' = settings
        /\ last'.rerun => (last'.sent = last.sent /\ last'.outcome = last.outcome)
      ]_vars

\* a repeated mailing invocation that sent at least two mails
C9_Witness ==
    /\ last.rerun
    /\ last.op \in MailingOps
    /\ Len(last.sent) >= 2

\* C10: an advance run for a valid frequency issues one lookup per employee,
\* for that employee's holidays within the window with only-non-weekly set,
\* passes on exactly the employees whose lookup is not null, and sends no mail.
C10_OneLookupPerEmployee ==
    \A frequency \in Frequencies :
        (\/ last.op = "send_advance_holiday_reminders:" \o frequency
         \/ /\ last.op = (IF frequency = "Weekly"
                          THEN "send_reminders_in_advance_weekly"
                          ELSE "send_reminders_in_advance_monthly")
            /\ settings.send_holiday_reminders_in_advance = 1
            /\ settings.frequency = frequency) =>
            /\ Len(last.lookups) = NumEmployees
            /\ \A i \in 1..Len(last.lookups) :
                   /\ last.lookups[i].args
                          = <<i>> \o ExpectedWindow(frequency)
                   /\ last.lookups[i].only_non_weekly
            /\ last.advanced =
                   SelectSeq([i \in 1..NumEmployees |-> i],
                       LAMBDA i : get_holidays_for_employee(
                                      <<i>> \o ExpectedWindow(frequency), TRUE).status
                                  # "null")
            /\ last.sent = <<>>

====
